---------------------------- MODULE Spec2Model ----------------------------
(***************************************************************************)
(* Model of the weather-sheet to PowerPoint generator                      *)
(* (src/excel_to_ppt/processor.py, src/excel_to_ppt/utils.py).             *)
(*                                                                         *)
(* Text is modelled as a sequence of symbols.  A symbol is either a        *)
(* separator (" ", ",", "NL" for the line feed, "/", "-", "(", ")", "_",   *)
(* "."), a digit, a single letter, or a whole Vietnamese word written in   *)
(* ASCII ("nang" = nắng, "khong" = không, "co" = có, "mua" = mưa,          *)
(* "may" = mây, "dong" = dông, "Ngay" = Ngày, "Thu" = Thứ ...).  No word   *)
(* of the alphabet is a substring of another one, so Python's substring    *)
(* test and str.replace on the characters coincide with the same           *)
(* operations on the symbols.                                              *)
(*                                                                         *)
(* Four specifications share the variables:                                *)
(*   Spec        one run of generate_ppt, one action per step;             *)
(*   SpecIcon    select_image applied to bounded weather texts;            *)
(*   SpecSweep   select_image applied to each of these texts in turn;      *)
(*   SpecPeriod  concatenate_headers, extract_period and write_period      *)
(*               applied to bounded pairs of dates and period shapes.      *)
(***************************************************************************)
EXTENDS Integers, Sequences, FiniteSets, TLC

VARIABLES
    pc,            \* position of the run
    error,         \* Python exception that ended the run, or "none"
    \* ---- inputs of generate_ppt
    input_file,    \* basename of the uploaded sheet (symbols)
    sheet,         \* location column of the sheet rows, in sheet order
    num_dates,     \* number of date columns of the sheet
    first_date,    \* date below the first date column
    template,      \* index of the template deck in Templates
    image_dir,     \* icon files present in the image directory
    \* ---- state of generate_ppt
    processed_df,  \* normalized table: rows [loc, date, temp]
    districts,     \* processed_df.iloc[:, 0].unique()
    di,            \* index of the current district in districts
    slide,         \* shapes of ppt.slides[0]
    table,         \* index of the table shape in slide, 0 for None
    cells,         \* cells of the table: row -> [c0, c2] paragraphs
    district_ok,   \* value returned by write_district
    steps,         \* steps completed for the current district, in order
    output_files,  \* the list generate_ppt returns
    saved,         \* ppt.save calls so far: the district, the path, the deck
    \* ---- select_image
    text,          \* weather text handed to select_image
    img,           \* icon select_image returned
    \* ---- extract_period / write_period
    end_date,      \* date below the tenth date column
    labels,        \* date labels of row 0 and row 9
    period,        \* string extract_period returned
    vocab,         \* index of the vocabulary and mapping in Vocabularies
    ti,            \* number of weather texts handed to select_image so far
    seen           \* values select_image returned so far

inVars   == <<input_file, sheet, num_dates, first_date, template, image_dir>>
pipeVars == <<processed_df, districts, di, slide, table, cells, district_ok,
              steps, output_files, saved>>
iconVars == <<text, img, vocab, ti, seen>>
perVars  == <<end_date, labels, period>>
vars     == <<pc, error, inVars, pipeVars, iconVars, perVars>>

None == "None"

(***************************************************************************)
(* Python str operations on symbol sequences.                              *)
(***************************************************************************)
Whitespace == {" ", "NL"}
NonWord    == {" ", "NL", ",", "/", "-", "(", ")", "_", ".", "deg"}

\* str.lower() / str.upper() on one symbol
LowerSym(c) ==
    CASE c = "Nang" -> "nang"
      [] c = "Co"   -> "co"
      [] c = "Ngay" -> "ngay"
      [] c = "Thu"  -> "thu"
      [] c = "A"    -> "a"
      [] c = "B"    -> "b"
      [] c = "X"    -> "x"
      [] c = "Y"    -> "y"
      [] OTHER      -> c

UpperSym(c) ==
    CASE c = "a" -> "A"
      [] c = "b" -> "B"
      [] c = "x" -> "X"
      [] c = "y" -> "Y"
      [] OTHER   -> c

Lower(t) == [i \in 1..Len(t) |-> LowerSym(t[i])]

\* the non-empty p occurs in t at position i
OccursAt(p, t, i) ==
    /\ t[i] = p[1]
    /\ i + Len(p) - 1 <= Len(t)
    /\ \A k \in 2..Len(p) : t[i + k - 1] = p[k]

\* Python: p in t
Contains(t, p) == \E i \in 1..Len(t) : OccursAt(p, t, i)

\* Python: t.replace(p, ""): every non-overlapping occurrence, left to right
RECURSIVE ReplaceFrom(_, _, _)
ReplaceFrom(t, p, i) ==
    IF i > Len(t) THEN <<>>
    ELSE IF OccursAt(p, t, i) THEN ReplaceFrom(t, p, i + Len(p))
    ELSE <<t[i]>> \o ReplaceFrom(t, p, i + 1)

Replace(t, p) == ReplaceFrom(t, p, 1)

\* Python: re.findall(r'\b\w+\b', t): the maximal runs of word symbols
RECURSIVE FindWords(_, _, _)
FindWords(t, i, cur) ==
    IF i > Len(t) THEN (IF cur = <<>> THEN {} ELSE {cur})
    ELSE IF t[i] \in NonWord
         THEN (IF cur = <<>> THEN {} ELSE {cur}) \cup FindWords(t, i + 1, <<>>)
         ELSE FindWords(t, i + 1, Append(cur, t[i]))

\* Python: t.split(): the maximal runs of non-whitespace symbols, in order
RECURSIVE SplitFrom(_, _, _)
SplitFrom(t, i, cur) ==
    IF i > Len(t) THEN (IF cur = <<>> THEN <<>> ELSE <<cur>>)
    ELSE IF t[i] \in Whitespace
         THEN (IF cur = <<>> THEN <<>> ELSE <<cur>>) \o SplitFrom(t, i + 1, <<>>)
         ELSE SplitFrom(t, i + 1, Append(cur, t[i]))

Split(t) == SplitFrom(t, 1, <<>>)

\* Python: t.split(sep), a list of (possibly empty) parts
RECURSIVE SplitOnFrom(_, _, _, _)
SplitOnFrom(t, sep, i, cur) ==
    IF i > Len(t) THEN <<cur>>
    ELSE IF t[i] = sep THEN <<cur>> \o SplitOnFrom(t, sep, i + 1, <<>>)
    ELSE SplitOnFrom(t, sep, i + 1, Append(cur, t[i]))

SplitOn(t, sep) == SplitOnFrom(t, sep, 1, <<>>)

\* concatenation of a sequence of texts
RECURSIVE Concat(_)
Concat(ts) == IF ts = <<>> THEN <<>> ELSE Head(ts) \o Concat(Tail(ts))

\* Python: sep.join(ts)
RECURSIVE Join(_, _)
Join(ts, sep) ==
    IF ts = <<>> THEN <<>>
    ELSE IF Len(ts) = 1 THEN Head(ts)
    ELSE Head(ts) \o sep \o Join(Tail(ts), sep)

(***************************************************************************)
(* Condition-to-image matcher.                                             *)
(***************************************************************************)
\* processor.py: phrases
phrases ==
    << <<"nang">>, <<"khong", " ", "nang">>, <<"co", " ", "mua">>,
       <<"khong", " ", "mua">>, <<"may">>, <<"khong", " ", "may">>,
       <<"dong">>, <<"khong", " ", "dong">> >>

\* processor.py: image_mappings, a dict in insertion order
image_mappings ==
    << [condition |-> {<<"nang">>, <<"may">>, <<"khong", " ", "mua">>},
        image |-> "hs_hc_nr_nt.png"],
       [condition |-> {<<"nang">>, <<"may">>, <<"co", " ", "mua">>},
        image |-> "hs_hc_hr_nt.png"],
       [condition |-> {<<"nang">>, <<"khong", " ", "may">>, <<"co", " ", "mua">>,
                       <<"dong">>},
        image |-> "hs_nc_hr_ht.png"],
       [condition |-> {<<"nang">>, <<"khong", " ", "may">>, <<"co", " ", "mua">>},
        image |-> "hs_nc_hs_nt.png"],
       [condition |-> {<<"nang">>, <<"khong", " ", "may">>, <<"khong", " ", "mua">>},
        image |-> "hs_nc_nr_nt.png"],
       [condition |-> {<<"khong", " ", "nang">>, <<"co", " ", "may">>,
                       <<"khong", " ", "mua">>},
        image |-> "ns_hc_nr_nt.png"],
       [condition |-> {<<"khong", " ", "nang">>, <<"khong", " ", "may">>,
                       <<"co", " ", "mua">>},
        image |-> "ns_nc_hr_nt.png"] >>

\* the loop of extract_conditions from phrase k on
RECURSIVE ExtractLoop(_, _, _, _)
ExtractLoop(t, phr, k, extracted) ==
    IF k > Len(phr) THEN [text |-> t, extracted |-> extracted]
    ELSE IF Contains(t, phr[k])
         THEN ExtractLoop(Replace(t, phr[k]), phr, k + 1, extracted \cup {phr[k]})
         ELSE ExtractLoop(t, phr, k + 1, extracted)

extract_conditions(t, phr) ==
    LET r == ExtractLoop(t, phr, 1, {})
    IN  r.extracted \cup FindWords(Lower(r.text), 1, <<>>)

\* the loop of select_image from mapping entry k on
RECURSIVE SelectLoop(_, _, _)
SelectLoop(text_set, mappings, k) ==
    IF k > Len(mappings) THEN None
    ELSE IF mappings[k].condition \subseteq text_set THEN mappings[k].image
    ELSE SelectLoop(text_set, mappings, k + 1)

\* a loop in which a later matching entry replaces an earlier one
RECURSIVE SelectLoopLast(_, _, _)
SelectLoopLast(text_set, mappings, k) ==
    IF k < 1 THEN None
    ELSE IF mappings[k].condition \subseteq text_set THEN mappings[k].image
    ELSE SelectLoopLast(text_set, mappings, k - 1)

select_image_last(t, phr, mappings) ==
    SelectLoopLast(extract_conditions(t, phr), mappings, Len(mappings))

select_image(t, phr, mappings) ==
    SelectLoop(extract_conditions(t, phr), mappings, 1)

(***************************************************************************)
(* Dates and the date labels of the sheet header.                          *)
(***************************************************************************)
Digits == <<"0", "1", "2", "3", "4", "5", "6", "7", "8", "9">>
Digit(n) == Digits[n + 1]
IsDigit(c) == \E k \in 1..Len(Digits) : Digits[k] = c

\* strftime's %d and %m: two digits, zero padded
TwoDigits(n) == <<Digit(n \div 10), Digit(n % 10)>>

\* concatenate_headers: f'Ngày {value} ({header})' with value = strftime("%d/%m")
HeaderLabel(date, header) ==
    <<"Ngay", " ">> \o TwoDigits(date.d) \o <<"/">> \o TwoDigits(date.m)
        \o <<" ", "(">> \o header \o <<")">>

\* re.search(r'Ngày (\d{2}/\d{2})', t): the first match's group 1, or None
DateTokenAt(t, i) ==
    /\ i + 6 <= Len(t)
    /\ t[i] = "Ngay" /\ t[i + 1] = " "
    /\ IsDigit(t[i + 2]) /\ IsDigit(t[i + 3])
    /\ t[i + 4] = "/"
    /\ IsDigit(t[i + 5]) /\ IsDigit(t[i + 6])

SearchDate(t) ==
    IF \E i \in 1..Len(t) : DateTokenAt(t, i)
    THEN LET i == CHOOSE j \in 1..Len(t) :
                      /\ DateTokenAt(t, j)
                      /\ \A k \in 1..(j - 1) : ~DateTokenAt(t, k)
         IN  SubSeq(t, i + 2, i + 6)
    ELSE None

\* Python: t.lstrip('0')
RECURSIVE LStripZero(_)
LStripZero(t) ==
    IF t # <<>> /\ Head(t) = "0" THEN LStripZero(Tail(t)) ELSE t

\* extract_period on the texts of rows 0 and 9 (both found by the caller);
\* the year is the literal of the f-string
extract_period(start_text, end_text) ==
    LET start_date == SearchDate(start_text)
        end_date_  == SearchDate(end_text)
        s == SplitOn(start_date, "/")
        e == SplitOn(end_date_, "/")
        start_day   == LStripZero(s[1])
        end_day     == LStripZero(e[1])
        start_month == LStripZero(s[2])
        end_month   == LStripZero(e[2])
    IN  IF start_month = end_month
        THEN <<"Tu", " ", "ngay", " ">> \o start_day \o <<" ", "-", " ">> \o end_day
                 \o <<" ", "thang", " ">> \o start_month
                 \o <<" ", "nam", " ", "2", "0", "2", "5">>
        ELSE <<"Tu", " ", "ngay", " ">> \o start_day \o <<"/">> \o start_month
                 \o <<" ", "-", " ">> \o end_day \o <<"/">> \o end_month
                 \o <<" ", "nam", " ", "2", "0", "2", "5">>

\* the exception extract_period raises on these two texts, or "none"
extract_period_error(start_text, end_text) ==
    IF SearchDate(start_text) = None \/ SearchDate(end_text) = None
    THEN "AttributeError" ELSE "none"

(***************************************************************************)
(* Runs, paragraphs and the style-preserving writes.                       *)
(***************************************************************************)
\* a run of a paragraph and the font attributes get_run_styles reads
Run(t, style) == [text |-> t, style |-> style]

NoStyle == [size |-> 0, bold |-> None, italic |-> None, underline |-> None,
            name |-> None, color |-> None]

\* the k-th style of a template; run 1 has no explicit colour
TemplateStyle(k) ==
    [size |-> 10 + k, bold |-> IF k % 2 = 0 THEN "True" ELSE "False",
     italic |-> "False", underline |-> "False", name |-> "Arial",
     color |-> IF k = 1 THEN None ELSE "C00000"]

TemplateRuns(n) == [k \in 1..n |-> Run(<<"x">>, TemplateStyle(k))]

get_run_styles(p) == [k \in 1..Len(p) |-> p[k].style]

ParagraphText(p) == Concat([k \in 1..Len(p) |-> p[k].text])

\* python-pptx: paragraph.text = t
PlainText(t) == IF t = <<>> THEN <<>> ELSE <<Run(t, NoStyle)>>

\* the colour apply_styles gives a new run
RunColor(style, temp) ==
    IF style.color # None THEN style.color
    ELSE IF temp THEN "4472C4" ELSE None

\* the exception apply_styles raises, or "none": styles[i % len(styles)]
apply_styles_error(t, styles) ==
    IF Split(t) # <<>> /\ Len(styles) = 0 THEN "ZeroDivisionError" ELSE "none"

\* apply_styles: the runs of the paragraph after the call (styles non-empty
\* or no words)
apply_styles(t, styles, temp) ==
    LET words == Split(t)
    IN  [i \in 1..Len(words) |->
            LET style == styles[((i - 1) % Len(styles)) + 1]
            IN  Run(IF i = Len(words) THEN words[i] ELSE words[i] \o <<" ">>,
                    [style EXCEPT !.color = RunColor(style, temp)])]

\* one paragraph of set_cell_text_two_paragraphs
SetParagraph(p, t, temp) ==
    IF p # <<>> THEN apply_styles(t, get_run_styles(p), temp) ELSE PlainText(t)

\* set_cell_text_two_paragraphs: the paragraphs of the cell after the call
set_cell_text_two_paragraphs(cell, new_text, temp) ==
    LET parts == SplitOn(new_text, "NL")
        text1 == parts[1]
        text2 == IF Len(parts) > 1 THEN parts[2] ELSE <<>>
        padded == IF Len(cell) = 0 THEN <<<<>>, <<>>>>
                  ELSE IF Len(cell) = 1 THEN <<cell[1], <<>>>>
                  ELSE cell
    IN  [k \in 1..Len(padded) |->
            IF k = 1 THEN SetParagraph(padded[1], text1, temp)
            ELSE IF k = 2 THEN SetParagraph(padded[2], text2, temp)
            ELSE padded[k]]

\* python-pptx: cell.text, the paragraphs joined by a line feed
CellText(cell) == Join([k \in 1..Len(cell) |-> ParagraphText(cell[k])], <<"NL">>)

(***************************************************************************)
(* Location names, district display names and output paths.                *)
(***************************************************************************)
\* Unicode code point of a symbol of a location name
Code(c) ==
    CASE c = " " -> 32
      [] c = "-" -> 45
      [] c = "A" -> 65
      [] c = "B" -> 66
      [] c = "X" -> 88
      [] c = "Y" -> 89
      [] c = "a" -> 97
      [] c = "b" -> 98
      [] c = "x" -> 120
      [] c = "y" -> 121

IsLetter(c) == c \in {"A", "B", "X", "Y", "a", "b", "x", "y"}

\* Python's order on str: a < b
RECURSIVE StrLess(_, _)
StrLess(a, b) ==
    IF a = <<>> THEN b # <<>>
    ELSE IF b = <<>> THEN FALSE
    ELSE IF Head(a) # Head(b) THEN Code(Head(a)) < Code(Head(b))
    ELSE StrLess(Tail(a), Tail(b))

\* Python: t.strip()
RECURSIVE LStrip(_)
LStrip(t) == IF t # <<>> /\ Head(t) \in Whitespace THEN LStrip(Tail(t)) ELSE t

RECURSIVE RStrip(_)
RStrip(t) ==
    IF t # <<>> /\ t[Len(t)] \in Whitespace THEN RStrip(SubSeq(t, 1, Len(t) - 1))
    ELSE t

Strip(t) == LStrip(RStrip(t))

\* Python: t.title(): a letter after a non-letter is upper case, any other
\* letter lower case
Title(t) ==
    [i \in 1..Len(t) |->
        IF i = 1 \/ ~IsLetter(t[i - 1]) THEN UpperSym(t[i]) ELSE LowerSym(t[i])]

\* processor.py: district.split('-')[0].strip().title()
DistrictName(district) == Title(Strip(SplitOn(district, "-")[1]))

\* extract_province: re.match(r'([^_]+)_', filename)
extract_province(filename) ==
    IF \E i \in 2..Len(filename) : filename[i] = "_" /\ filename[1] # "_"
    THEN LET i == CHOOSE j \in 2..Len(filename) :
                      /\ filename[j] = "_"
                      /\ \A k \in 1..(j - 1) : filename[k] # "_"
         IN  SubSeq(filename, 1, i - 1)
    ELSE <<None>>

\* processor.py: Path(output_path) / f'ACB_{province}_{district_name}.pptx'
OutputFile(filename, district_name) ==
    <<"ACB", "_">> \o extract_province(filename) \o <<"_">> \o district_name
        \o <<".pptx">>

(***************************************************************************)
(* The normalized table.                                                   *)
(***************************************************************************)
\* utils.py: for i in range(10), df.iloc[9, 1]
NumRows == 10

DaysInMonth(m) == IF m \in {4, 6, 9, 11} THEN 30 ELSE IF m = 2 THEN 28 ELSE 31

\* the date k days after date (the sheet holds consecutive days)
RECURSIVE AddDays(_, _)
AddDays(date, k) ==
    IF k = 0 THEN date
    ELSE IF date.d < DaysInMonth(date.m)
         THEN AddDays([date EXCEPT !.d = date.d + 1], k - 1)
    ELSE IF date.m < 12
         THEN AddDays([date EXCEPT !.m = date.m + 1, !.d = 1], k - 1)
    ELSE AddDays([y |-> date.y + 1, m |-> 1, d |-> 1], k - 1)

\* header of the k-th date column after rename_columns: "Thứ 2" .. "Thứ 7"
WeekdayHeader(k) == <<"Thu", " ", Digit(2 + (k % 6))>>

\* weather texts of the sheet
WeatherPool ==
    << <<"Co", " ", "may", ",", " ", "co", " ", "nang", ",", " ", "khong", " ", "mua">>,
       <<"nhieu", " ", "may", ",", " ", "co", " ", "mua">>,
       <<"co", " ", "nang", ",", " ", "co", " ", "may", ",", " ", "co", " ", "mua">>,
       <<"khong", " ", "nang", ",", " ", "khong", " ", "may", ",", " ",
         "co", " ", "mua", " ", "dong">> >>

\* the weather cell of a location on its k-th date: location "a -x" has the
\* first two texts in turn, every other location all four
Forecast(loc, k) ==
    IF loc = <<"a", " ", "-", "x">> THEN WeatherPool[(k % 2) + 1]
    ELSE WeatherPool[(k % Len(WeatherPool)) + 1]

\* format_dataframe: '<high>°C\n<low>°C' ("deg" is "°C")
Temperature(loc, k) ==
    <<"3", Digit(k % 10), "deg", "NL", "2", Digit(k % 10), "deg">>

\* restructure_dataframe and format_dataframe: the rows of one location,
\* one per date column
Block(loc, ndates, first) ==
    [k \in 1..ndates |->
        [loc  |-> loc,
         date |-> HeaderLabel(AddDays(first, k - 1), WeekdayHeader(k))
                      \o <<"NL">> \o Forecast(loc, k),
         temp |-> Temperature(loc, k)]]

\* pandas: Series.unique(), the values in order of first appearance
RECURSIVE Unique(_)
Unique(col) ==
    IF col = <<>> THEN <<>>
    ELSE LET rest == Unique(SubSeq(col, 1, Len(col) - 1))
             last == col[Len(col)]
         IN  IF \E i \in 1..Len(rest) : rest[i] = last THEN rest
             ELSE Append(rest, last)

\* pandas: df.groupby(key) with the default sort=True: the keys ascending
RECURSIVE SortKeys(_)
SortKeys(keys) ==
    IF keys = {} THEN <<>>
    ELSE LET least == CHOOSE a \in keys : \A b \in keys \ {a} : StrLess(a, b)
         IN  <<least>> \o SortKeys(keys \ {least})

GroupKeys(col) == SortKeys({col[i] : i \in 1..Len(col)})

\* restructure_dataframe: pd.concat of the blocks in group order
restructure_dataframe(col, ndates, first) ==
    LET keys == GroupKeys(col)
    IN  Concat([g \in 1..Len(keys) |-> Block(keys[g], ndates, first)])

\* processed_df[processed_df.iloc[:, 0] == district]
RECURSIVE DistrictRows(_, _)
DistrictRows(df, district) ==
    IF df = <<>> THEN <<>>
    ELSE IF Head(df).loc = district
         THEN <<Head(df)>> \o DistrictRows(Tail(df), district)
    ELSE DistrictRows(Tail(df), district)

(***************************************************************************)
(* Template decks and the shapes of the slide.                             *)
(***************************************************************************)
\* MSO_SHAPE_TYPE.PICTURE, the discriminant remove_all_pictures tests
PICTURE == 13

Shape(type, hasTable, hasText, paragraphs, src, row) ==
    [shape_type |-> type, has_table |-> hasTable, has_text_frame |-> hasText,
     paragraphs |-> paragraphs, src |-> src, row |-> row]

TextBox(n)    == Shape(17, FALSE, TRUE, <<TemplateRuns(n)>>, "template", 0)
TableShape    == Shape(19, TRUE, FALSE, <<>>, "template", 0)
LineShape     == Shape(9, FALSE, FALSE, <<>>, "template", 0)
StalePicture  == Shape(PICTURE, FALSE, FALSE, <<>>, "template", 0)

\* add_image_to_cell: the picture placed in the box of cell (row, 1)
IconPicture(image, row) == Shape(PICTURE, FALSE, FALSE, <<>>, image, row)

\* the template decks: the shapes of the slide and the paragraphs every
\* cell of column 0 and of column 2 of the table holds
Templates ==
    << \* title, table, period, two stale icons
       [shapes |-> <<TextBox(1), TableShape, TextBox(2), StalePicture, StalePicture>>,
        c0 |-> <<TemplateRuns(2), TemplateRuns(1)>>,
        c2 |-> <<TemplateRuns(1), TemplateRuns(1)>>],
       \* stale icons before the table, cells without runs, a third paragraph
       [shapes |-> <<StalePicture, TextBox(1), StalePicture, TableShape,
                     TextBox(3), LineShape>>,
        c0 |-> << <<>> >>,
        c2 |-> <<TemplateRuns(1), <<>>, TemplateRuns(1)>>],
       \* no table
       [shapes |-> <<TextBox(1), TextBox(1), TextBox(2)>>,
        c0 |-> <<>>, c2 |-> <<>>],
       \* no text-bearing shape
       [shapes |-> <<TableShape, LineShape, StalePicture>>,
        c0 |-> <<TemplateRuns(1), TemplateRuns(1)>>,
        c2 |-> <<TemplateRuns(1), TemplateRuns(1)>>],
       \* the period shape holds an empty paragraph
       [shapes |-> <<TextBox(1), TableShape, TextBox(0)>>,
        c0 |-> <<TemplateRuns(1), TemplateRuns(1)>>,
        c2 |-> <<TemplateRuns(1), TemplateRuns(1)>>],
       \* the first text-bearing shape is the shape at index 2
       [shapes |-> <<TableShape, LineShape, TextBox(2)>>,
        c0 |-> <<TemplateRuns(1), TemplateRuns(1), TemplateRuns(1)>>,
        c2 |-> <<TemplateRuns(1), TemplateRuns(1)>>] >>

\* find_table: the first shape with a table, 0 for None
find_table(shapes) ==
    IF \E i \in 1..Len(shapes) : shapes[i].has_table
    THEN CHOOSE i \in 1..Len(shapes) :
             /\ shapes[i].has_table
             /\ \A j \in 1..(i - 1) : ~shapes[j].has_table
    ELSE 0

\* the rows update_table_with_data writes before it returns or raises
RowsWritten(tbl, df) ==
    IF tbl = 0 THEN 0 ELSE IF Len(df) < NumRows THEN Len(df) ELSE NumRows

\* a variant that returns quietly when there is no table
update_table_error_lenient(tbl, df) ==
    IF tbl # 0 /\ Len(df) < NumRows THEN "IndexError" ELSE "none"

\* the exception update_table_with_data raises, or "none"
update_table_error(tbl, df) ==
    IF tbl = 0 THEN "AttributeError"
    ELSE IF Len(df) < NumRows THEN "IndexError"
    ELSE "none"

\* update_table_with_data: the cells after the call
update_table_with_data(cs, tbl, df) ==
    [i \in DOMAIN cs |->
        IF i <= RowsWritten(tbl, df)
        THEN [c0 |-> set_cell_text_two_paragraphs(cs[i].c0, df[i].date, FALSE),
              c2 |-> set_cell_text_two_paragraphs(cs[i].c2, df[i].temp, TRUE)]
        ELSE cs[i]]

\* a loop over the live shape list: the shape after a removed one is skipped
RECURSIVE RemoveLive(_, _)
RemoveLive(shapes, i) ==
    IF i > Len(shapes) THEN shapes
    ELSE IF shapes[i].shape_type = PICTURE
         THEN RemoveLive(SubSeq(shapes, 1, i - 1) \o SubSeq(shapes, i + 1, Len(shapes)),
                         i + 1)
    ELSE RemoveLive(shapes, i + 1)

remove_live_pictures(shapes) == RemoveLive(shapes, 1)

\* slide.shapes._spTree.remove(shape._element): the tree without that shape
RemoveShape(tree, sh) ==
    IF \E j \in 1..Len(tree) : tree[j] = sh
    THEN LET j == CHOOSE k \in 1..Len(tree) :
                      tree[k] = sh /\ \A l \in 1..(k - 1) : tree[l] # sh
         IN  SubSeq(tree, 1, j - 1) \o SubSeq(tree, j + 1, Len(tree))
    ELSE tree

\* the loop of remove_all_pictures over the copy list(slide.shapes)
RECURSIVE RemoveWalk(_, _, _)
RemoveWalk(copy, i, tree) ==
    IF i > Len(copy) THEN tree
    ELSE IF copy[i].shape_type = PICTURE
         THEN RemoveWalk(copy, i + 1, RemoveShape(tree, copy[i]))
    ELSE RemoveWalk(copy, i + 1, tree)

\* remove_all_pictures: the shapes of the slide after the call
remove_all_pictures(shapes) == RemoveWalk(shapes, 1, shapes)

\* update_table_with_images: the icon of each of the rows 1..n, None where
\* select_image returns none
RECURSIVE RowIcons(_, _)
RowIcons(cs, n) ==
    IF n = 0 THEN <<>>
    ELSE Append(RowIcons(cs, n - 1),
                select_image(CellText(cs[n].c0), phrases, image_mappings))

\* the first row whose icon file is missing from the image directory, or 0
FirstMissing(icons, dir) ==
    IF \E i \in 1..Len(icons) : icons[i] # None /\ icons[i] \notin dir
    THEN CHOOSE i \in 1..Len(icons) :
             /\ icons[i] # None /\ icons[i] \notin dir
             /\ \A j \in 1..(i - 1) : icons[j] = None \/ icons[j] \in dir
    ELSE 0

\* the pictures add_image_to_cell appends for rows 1..n, in row order
RECURSIVE AddIcons(_, _)
AddIcons(icons, n) ==
    IF n = 0 THEN <<>>
    ELSE AddIcons(icons, n - 1)
             \o (IF icons[n] = None THEN <<>> ELSE <<IconPicture(icons[n], n)>>)

\* update_table_with_images: the shapes after the call (up to the row
\* whose file is missing, when one is)
update_table_with_images(shapes, icons, dir) ==
    LET miss == FirstMissing(icons, dir)
    IN  shapes \o AddIcons(icons, IF miss = 0 THEN NumRows ELSE miss - 1)

\* the exception slide.shapes.add_picture raises, or "none"
update_images_error(icons, dir) ==
    IF FirstMissing(icons, dir) = 0 THEN "none" ELSE "FileNotFoundError"

\* write_district: the first text-bearing shape, 0 when there is none
FirstTextShape(shapes) ==
    IF \E i \in 1..Len(shapes) : shapes[i].has_text_frame
    THEN CHOOSE i \in 1..Len(shapes) :
             /\ shapes[i].has_text_frame
             /\ \A j \in 1..(i - 1) : ~shapes[j].has_text_frame
    ELSE 0

\* write_district: shape.text = new_text on that shape
write_district(shapes, new_text) ==
    LET i == FirstTextShape(shapes)
    IN  IF i = 0 THEN shapes
        ELSE [shapes EXCEPT ![i].paragraphs = <<PlainText(new_text)>>]

\* the exception write_period raises, or "none": slide.shapes[2], its
\* text_frame, then apply_styles
write_period_error(shapes, new_text) ==
    IF Len(shapes) < 3 THEN "IndexError"
    ELSE IF ~shapes[3].has_text_frame THEN "AttributeError"
    ELSE apply_styles_error(new_text, get_run_styles(shapes[3].paragraphs[1]))

\* write_period: the shapes after the call
write_period(shapes, new_text) ==
    [shapes EXCEPT ![3].paragraphs[1] =
        apply_styles(new_text, get_run_styles(shapes[3].paragraphs[1]), FALSE)]

(***************************************************************************)
(* Spec: one run of generate_ppt(input_file, output_path, template_path,   *)
(* image_path).                                                            *)
(***************************************************************************)
\* longest location column of a sheet
MaxSheetRows == 3

\* location names of the sheets: "b", "a -x", "a-y"
LocPool == { <<"b">>, <<"a", " ", "-", "x">>, <<"a", "-", "y">> }

Sheets == UNION { [1..n -> LocPool] : n \in 1..MaxSheetRows }

\* the uploads: the basename of the file ("pr_w1.xlsx", "w1.xlsx") and the
\* date below its first date column
Uploads ==
    { [file |-> <<"pr", "_", "w1", ".xlsx">>, first |-> [y |-> 2025, m |-> 6, d |-> 24]],
      [file |-> <<"w1", ".xlsx">>,            first |-> [y |-> 2026, m |-> 7, d |-> 1]] }

AllIcons == { image_mappings[k].image : k \in 1..Len(image_mappings) }

ImageDirs == { AllIcons, AllIcons \ {"hs_hc_hr_nt.png"} }

Idle ==
    /\ processed_df = <<>> /\ districts = <<>> /\ di = 0
    /\ slide = <<>> /\ table = 0 /\ cells = <<>>
    /\ district_ok = FALSE /\ steps = <<>>
    /\ output_files = <<>> /\ saved = <<>>

NoIcon   == text = <<>> /\ img = None /\ vocab = 1 /\ ti = 0 /\ seen = {}
NoPeriod == end_date = [y |-> 0, m |-> 0, d |-> 0] /\ labels = <<>> /\ period = <<>>

Init ==
    /\ pc = "start" /\ error = "none"
    /\ \E up \in Uploads : input_file = up.file /\ first_date = up.first
    /\ sheet \in Sheets
    /\ num_dates \in {NumRows - 1, NumRows, NumRows + 1}
    /\ template \in 1..Len(Templates)
    /\ image_dir \in ImageDirs
    /\ Idle /\ NoIcon /\ NoPeriod

\* a list that keeps one entry per path
append_output_once(files, f) ==
    IF \E i \in 1..Len(files) : files[i] = f THEN files ELSE Append(files, f)

\* processor.py: output_files.append(output_file)
append_output(files, f) == Append(files, f)

district    == districts[di]
district_df == DistrictRows(processed_df, district)

Raise(err) == pc' = "failed" /\ error' = err

\* processor.py 23-26
ProcessDataframe ==
    /\ pc = "start"
    /\ processed_df' = restructure_dataframe(sheet, num_dates, first_date)
    /\ districts' = Unique([i \in 1..Len(processed_df') |-> processed_df'[i].loc])
    /\ di' = 1
    /\ output_files' = <<>>
    /\ pc' = "load"
    /\ UNCHANGED <<error, inVars, slide, table, cells, district_ok, steps, saved,
                   iconVars, perVars>>

\* processor.py 29-31
LoadTemplate ==
    /\ pc = "load"
    /\ slide' = Templates[template].shapes
    /\ cells' = [i \in 1..NumRows |-> [c0 |-> Templates[template].c0,
                                       c2 |-> Templates[template].c2]]
    /\ table' = 0
    /\ district_ok' = FALSE
    /\ steps' = <<"load">>
    /\ pc' = "find_table"
    /\ UNCHANGED <<error, inVars, processed_df, districts, di, output_files, saved,
                   iconVars, perVars>>

\* processor.py 32
FindTable ==
    /\ pc = "find_table"
    /\ table' = find_table(slide)
    /\ steps' = Append(steps, "find_table")
    /\ pc' = "write_rows"
    /\ UNCHANGED <<error, inVars, processed_df, districts, di, slide, cells,
                   district_ok, output_files, saved, iconVars, perVars>>

\* processor.py 35
UpdateTableWithData ==
    /\ pc = "write_rows"
    /\ \E df \in {district_df} :
       LET err == update_table_error(table, df)
       IN  /\ cells' = update_table_with_data(cells, table, df)
           /\ IF err = "none"
              THEN /\ steps' = Append(steps, "write_rows")
                   /\ pc' = "strip"
                   /\ error' = error
              ELSE /\ Raise(err)
                   /\ steps' = steps
    /\ UNCHANGED <<inVars, processed_df, districts, di, slide, table, district_ok,
                   output_files, saved, iconVars, perVars>>

\* processor.py 36
RemoveAllPictures ==
    /\ pc = "strip"
    /\ slide' = remove_all_pictures(slide)
    /\ steps' = Append(steps, "strip")
    /\ pc' = "icons"
    /\ UNCHANGED <<error, inVars, processed_df, districts, di, table, cells,
                   district_ok, output_files, saved, iconVars, perVars>>

\* processor.py 37
UpdateTableWithImages ==
    /\ pc = "icons"
    /\ \E icons \in {RowIcons(cells, NumRows)} :
       LET err == update_images_error(icons, image_dir)
       IN  /\ slide' = update_table_with_images(slide, icons, image_dir)
           /\ IF err = "none"
              THEN /\ steps' = Append(steps, "icons")
                   /\ pc' = "district"
                   /\ error' = error
              ELSE /\ Raise(err)
                   /\ steps' = steps
    /\ UNCHANGED <<inVars, processed_df, districts, di, table, cells, district_ok,
                   output_files, saved, iconVars, perVars>>

\* processor.py 40-41
WriteDistrict ==
    /\ pc = "district"
    /\ slide' = write_district(slide, DistrictName(district))
    /\ district_ok' = (FirstTextShape(slide) # 0)
    /\ steps' = Append(steps, "district")
    /\ pc' = "period"
    /\ UNCHANGED <<error, inVars, processed_df, districts, di, table, cells,
                   output_files, saved, iconVars, perVars>>

\* the exception extract_period(district_df) raises, or "none": df.iloc[9, 1]
\* and the two pattern searches
district_period_error(df) ==
    IF Len(df) < NumRows THEN "IndexError"
    ELSE extract_period_error(df[1].date, df[NumRows].date)

\* processor.py 42
WritePeriod ==
    /\ pc = "period"
    /\ \E df \in {district_df} :
       LET err1 == district_period_error(df)
           new_text == extract_period(df[1].date, df[NumRows].date)
           err  == IF err1 # "none" THEN err1 ELSE write_period_error(slide, new_text)
       IN  IF err = "none"
           THEN /\ slide' = write_period(slide, new_text)
                /\ steps' = Append(steps, "period")
                /\ pc' = "save"
                /\ error' = error
           ELSE /\ Raise(err)
                /\ UNCHANGED <<slide, steps>>
    /\ UNCHANGED <<inVars, processed_df, districts, di, table, cells, district_ok,
                   output_files, saved, iconVars, perVars>>

\* processor.py 45-48, then the next district or the return
Save ==
    /\ pc = "save"
    /\ output_files' = append_output(output_files,
                                     OutputFile(input_file, DistrictName(district)))
    /\ saved' = Append(saved, [district |-> district,
                               path |-> OutputFile(input_file, DistrictName(district)),
                               slide |-> slide, table |-> table, cells |-> cells,
                               district_ok |-> district_ok, steps |-> steps])
    /\ IF di < Len(districts)
       THEN di' = di + 1 /\ pc' = "load"
       ELSE di' = di /\ pc' = "done"
    /\ UNCHANGED <<error, inVars, processed_df, districts, slide, table, cells,
                   district_ok, steps, iconVars, perVars>>

Next ==
    \/ ProcessDataframe
    \/ LoadTemplate
    \/ FindTable
    \/ UpdateTableWithData
    \/ RemoveAllPictures
    \/ UpdateTableWithImages
    \/ WriteDistrict
    \/ WritePeriod
    \/ Save

Spec == Init /\ [][Next]_vars

(***************************************************************************)
(* SpecIcon: select_image(text, phrases, image_mappings) on the texts      *)
(* built from at most MaxClauses clauses.                                  *)
(***************************************************************************)
\* most clauses of a weather text
MaxClauses == 3

\* the clauses: the vocabulary phrases, "có mây", "Nắng" and "có mưa dông"
ClausePool ==
    { phrases[k] : k \in 1..Len(phrases) }
        \cup { <<"co", " ", "may">>, <<"Nang">>, <<"co", " ", "mua", " ", "dong">> }

Joiners == { <<",", " ">>, <<" ">> }

IconTexts ==
    { Join(cs, j) : cs \in UNION { [1..n -> ClausePool] : n \in 1..MaxClauses },
                    j \in Joiners }

Reverse(seq) == [i \in 1..Len(seq) |-> seq[Len(seq) + 1 - i]]

\* the vocabulary and mapping of generate_ppt, and the same two in the
\* opposite order
Vocabularies ==
    << [phrases |-> phrases, mappings |-> image_mappings],
       [phrases |-> Reverse(phrases), mappings |-> Reverse(image_mappings)] >>

NoInput ==
    /\ input_file = <<>> /\ sheet = <<>> /\ num_dates = 0 /\ template = 0
    /\ image_dir = {}

InitIcon ==
    /\ pc = "select" /\ error = "none"
    /\ text \in IconTexts
    /\ vocab \in 1..Len(Vocabularies)
    /\ img = None
    /\ ti = 0 /\ seen = {}
    /\ first_date = [y |-> 0, m |-> 0, d |-> 0]
    /\ NoInput /\ Idle /\ NoPeriod

\* utils.py 424-442
SelectImage ==
    /\ pc = "select"
    /\ img' = select_image(text, Vocabularies[vocab].phrases,
                           Vocabularies[vocab].mappings)
    /\ pc' = "selected"
    /\ ti' = ti + 1
    /\ seen' = seen \cup {img'}
    /\ UNCHANGED <<error, inVars, pipeVars, text, vocab, perVars>>

NextIcon == SelectImage

SpecIcon == InitIcon /\ [][NextIcon]_vars

(***************************************************************************)
(* SpecSweep: select_image, with the vocabulary and mapping of             *)
(* generate_ppt, applied in turn to every text of at most MaxClauses       *)
(* clauses, as update_table_with_images applies it to one cell after       *)
(* another.                                                                *)
(***************************************************************************)
\* the clauses of ClausePool and the joiners, in a fixed order
ClauseList ==
    phrases \o << <<"co", " ", "may">>, <<"Nang">>, <<"co", " ", "mua", " ", "dong">> >>

JoinerList == << <<",", " ">>, <<" ">> >>

RECURSIVE Power(_, _)
Power(b, n) == IF n = 0 THEN 1 ELSE b * Power(b, n - 1)

\* the texts of exactly n clauses, and of at most n clauses
TextsOf(n) == Len(JoinerList) * Power(Len(ClauseList), n)

RECURSIVE TextsUpTo(_)
TextsUpTo(n) == IF n = 0 THEN 0 ELSE TextsUpTo(n - 1) + TextsOf(n)

\* the n clauses numbered c: the digits of c in base Len(ClauseList)
RECURSIVE ClauseTuple(_, _)
ClauseTuple(c, n) ==
    IF n = 0 THEN <<>>
    ELSE Append(ClauseTuple(c \div Len(ClauseList), n - 1),
                ClauseList[(c % Len(ClauseList)) + 1])

\* the text numbered i among the texts of n clauses or more
RECURSIVE TextNo(_, _)
TextNo(i, n) ==
    IF i < TextsOf(n)
    THEN Join(ClauseTuple(i \div Len(JoinerList), n),
              JoinerList[(i % Len(JoinerList)) + 1])
    ELSE TextNo(i - TextsOf(n), n + 1)

InitSweep ==
    /\ pc = "sweep" /\ error = "none"
    /\ text = <<>> /\ img = None /\ vocab = 1
    /\ ti = 0 /\ seen = {}
    /\ first_date = [y |-> 0, m |-> 0, d |-> 0]
    /\ NoInput /\ Idle /\ NoPeriod

\* utils.py 456-457 and 424-442: the next text
SelectNext ==
    /\ pc = "sweep"
    /\ ti < TextsUpTo(MaxClauses)
    /\ text' = TextNo(ti, 1)
    /\ img' = select_image(text', phrases, image_mappings)
    /\ seen' = seen \cup {img'}
    /\ ti' = ti + 1
    /\ pc' = IF ti' = TextsUpTo(MaxClauses) THEN "swept" ELSE "sweep"
    /\ UNCHANGED <<error, inVars, pipeVars, vocab, perVars>>

NextSweep == SelectNext

SpecSweep == InitSweep /\ [][NextSweep]_vars

(***************************************************************************)
(* SpecPeriod: concatenate_headers, extract_period and write_period on a   *)
(* pair of dates and a slide whose shape at index 2 holds 0..MaxRuns runs. *)
(***************************************************************************)
\* most runs of the first paragraph of the period shape
MaxRuns == 3

PeriodDates ==
    { [y |-> yy, m |-> mm, d |-> dd] :
          yy \in {2025, 2026}, mm \in {1, 6, 7, 12}, dd \in {1, 7, 10, 30} }

\* the template decks of SpecPeriod: the shape at index 2 holds 0..MaxRuns runs
PeriodTemplates ==
    [n \in 1..(MaxRuns + 1) |-> <<TextBox(1), TableShape, TextBox(n - 1)>>]

InitPeriod ==
    /\ pc = "headers" /\ error = "none"
    /\ first_date \in PeriodDates
    /\ end_date \in PeriodDates
    /\ template \in 1..Len(PeriodTemplates)
    /\ slide = PeriodTemplates[template]
    /\ labels = <<>> /\ period = <<>>
    /\ input_file = <<>> /\ sheet = <<>> /\ num_dates = 0 /\ image_dir = {}
    /\ processed_df = <<>> /\ districts = <<>> /\ di = 0
    /\ table = 0 /\ cells = <<>> /\ district_ok = FALSE /\ steps = <<>>
    /\ output_files = <<>> /\ saved = <<>>
    /\ NoIcon

\* utils.py 147-156 and format_dataframe's '<date>\n<weather>': the texts
\* of row 0 and row 9, column 1
ConcatenateHeaders ==
    /\ pc = "headers"
    /\ labels' = << HeaderLabel(first_date, WeekdayHeader(1)) \o <<"NL">>
                        \o WeatherPool[1],
                    HeaderLabel(end_date, WeekdayHeader(NumRows)) \o <<"NL">>
                        \o WeatherPool[2] >>
    /\ pc' = "extract"
    /\ UNCHANGED <<error, inVars, pipeVars, iconVars, end_date, period>>

\* utils.py 499-516
ExtractPeriod ==
    /\ pc = "extract"
    /\ IF extract_period_error(labels[1], labels[2]) = "none"
       THEN /\ period' = extract_period(labels[1], labels[2])
            /\ pc' = "write"
            /\ error' = error
       ELSE /\ Raise(extract_period_error(labels[1], labels[2]))
            /\ period' = period
    /\ UNCHANGED <<inVars, pipeVars, iconVars, end_date, labels>>

\* utils.py 527-529
WritePeriodShape ==
    /\ pc = "write"
    /\ IF write_period_error(slide, period) = "none"
       THEN /\ slide' = write_period(slide, period)
            /\ pc' = "written"
            /\ error' = error
       ELSE /\ Raise(write_period_error(slide, period))
            /\ slide' = slide
    /\ UNCHANGED <<inVars, processed_df, districts, di, table, cells, district_ok,
                   steps, output_files, saved, iconVars, perVars>>

NextPeriod ==
    \/ ConcatenateHeaders
    \/ ExtractPeriod
    \/ WritePeriodShape

SpecPeriod == InitPeriod /\ [][NextPeriod]_vars

(***************************************************************************)
(* Properties of generate_ppt, checked under Spec.                         *)
(***************************************************************************)
SheetLocations == { sheet[i] : i \in 1..Len(sheet) }
TableLocations == { processed_df[i].loc : i \in 1..Len(processed_df) }

IsPicture(sh)      == sh.shape_type = PICTURE
IsNotPicture(sh)   == sh.shape_type # PICTURE
Pictures(shapes)    == SelectSeq(shapes, IsPicture)
NonPictures(shapes) == SelectSeq(shapes, IsNotPicture)

\* the template collaborator: a table, and (pictures aside) a text-bearing
\* shape at index 2 whose first paragraph holds a run
TemplateWellFormed ==
    LET shapes == NonPictures(Templates[template].shapes)
    IN  /\ find_table(shapes) # 0
        /\ Len(shapes) >= 3
        /\ shapes[3].has_text_frame
        /\ shapes[3].paragraphs[1] # <<>>

\* a sheet of NumRows date columns, a well-formed template, every icon file
WellFormedInput ==
    /\ num_dates = NumRows
    /\ TemplateWellFormed
    /\ image_dir = AllIcons

\* C1: for a well-formed input the run does not fail, and the list a run
\* returns has as many entries as the normalized table (and the sheet) has
\* distinct locations, with one deck saved per entry: the i-th save is the
\* deck of the i-th location, written to the i-th path of the list.
C1_OneDeckPerLocation ==
    /\ WellFormedInput => pc # "failed"
    /\ pc = "done" =>
           /\ Len(output_files) = Cardinality(TableLocations)
           /\ Cardinality(TableLocations) = Cardinality(SheetLocations)
           /\ Len(saved) = Len(output_files)
           /\ \A i \in 1..Len(saved) :
                  /\ saved[i].path = output_files[i]
                  /\ saved[i].district = districts[i]
           /\ \A i, j \in 1..Len(saved) :
                  i # j => saved[i].district # saved[j].district

\* a finished run on a well-formed sheet of three rows and two locations
C1_Witness ==
    /\ pc = "done"
    /\ WellFormedInput
    /\ Len(sheet) = MaxSheetRows
    /\ Cardinality(SheetLocations) = 2
    /\ Len(output_files) = 2

\* C2: within one run the output filenames are unique: no two decks saved
\* in the run are written to the same path.
C2_UniqueFilenames ==
    \A i, j \in 1..Len(saved) : i # j => saved[i].path # saved[j].path

\* the steps of one deck before it is persisted
DeckSteps ==
    <<"load", "find_table", "write_rows", "strip", "icons", "district", "period">>

IsPrefix(a, b) == Len(a) <= Len(b) /\ a = SubSeq(b, 1, Len(a))

\* C3: no deck is partially written: the steps of a location run in the
\* order load, find table, write rows, strip, icons, district, period; a
\* deck is saved only when all of them have succeeded (the table found, the
\* district header written); a location whose step failed has no saved deck.
C3_NoPartialDeck ==
    /\ IsPrefix(steps, DeckSteps)
    /\ pc = "save" => steps = DeckSteps
    /\ \A i \in 1..Len(saved) :
           /\ saved[i].steps = DeckSteps
           /\ saved[i].table # 0
           /\ saved[i].district_ok
    /\ pc = "failed" =>
           \A i \in 1..Len(saved) : saved[i].district # district

\* the second location fails on a missing icon file after the first was saved
C3_Witness ==
    /\ pc = "failed"
    /\ error = "FileNotFoundError"
    /\ Len(saved) = 1
    /\ steps = SubSeq(DeckSteps, 1, 4)

\* C4: a location block of 9 or 11 rows makes processing fail (whatever
\* the name of the exception) instead of being truncated to its first 10
\* rows: the run does not get past writing the rows and no deck is produced
\* from the block.
C4_RowCountRejected ==
    num_dates # NumRows =>
        /\ pc \notin {"strip", "icons", "district", "period", "save", "done"}
        /\ saved = <<>>

(***************************************************************************)
(* Properties of select_image, checked under SpecIcon.                     *)
(***************************************************************************)
\* the texts left after each phrase in turn: <<R0, .., Rn>>, R0 the text and
\* Rk the text R(k-1) with every occurrence of phrase k deleted
RECURSIVE Residuals(_, _, _)
Residuals(t, phr, k) ==
    IF k = 0 THEN <<t>>
    ELSE LET rs == Residuals(t, phr, k - 1)
         IN  Append(rs, Replace(rs[k], phr[k]))

\* the extracted condition set: the phrases found in the text left by the
\* phrases before them, and the lower-cased words of the last residual
ConditionSet(t, phr) ==
    LET rs == Residuals(t, phr, Len(phr))
    IN  { phr[k] : k \in { j \in 1..Len(phr) : Contains(rs[j], phr[j]) } }
            \cup FindWords(Lower(rs[Len(phr) + 1]), 1, <<>>)

\* the mapping entries whose condition set is a subset of the set cs
Matching(cs, mappings) ==
    { k \in 1..Len(mappings) : mappings[k].condition \subseteq cs }

\* C5: select_image returns the icon of the first mapping entry, in
\* insertion order, whose condition set is a subset of the condition set
\* extracted from the text, and none exactly when no entry's set is a subset.
C5_FirstMatchingEntry ==
    pc = "selected" =>
        \E m \in { Matching(ConditionSet(text, Vocabularies[vocab].phrases),
                            Vocabularies[vocab].mappings) } :
            /\ m = {} <=> img = None
            /\ m # {} =>
                   \E k \in m :
                       /\ \A j \in m : k <= j
                       /\ img = Vocabularies[vocab].mappings[k].image

\* a text matched by two entries with different icons
C5_Witness ==
    /\ pc = "selected"
    /\ img # None
    /\ \E j, k \in Matching(extract_conditions(text, Vocabularies[vocab].phrases),
                            Vocabularies[vocab].mappings) :
           Vocabularies[vocab].mappings[j].image # Vocabularies[vocab].mappings[k].image

\* the texts that list the phrases of the key c once each, in some order,
\* separated by ", "
Arrangements(c) ==
    { Join(f, <<",", " ">>) :
          f \in { g \in [1..Cardinality(c) -> c] : \A p \in c : \E i \in DOMAIN g : g[i] = p } }

\* C6: with the built-in vocabulary and mapping, for every entry keyed by
\* vocabulary phrases and every text made of the phrases of that key, in any
\* order, select_image returns the icon of that entry.
C6_KeyPhrasesSelectEntry ==
    (pc = "selected" /\ vocab = 1) =>
        \A k \in 1..Len(image_mappings) :
            ( /\ image_mappings[k].condition \subseteq { phrases[i] : i \in 1..Len(phrases) }
              /\ text \in Arrangements(image_mappings[k].condition) )
                => img = image_mappings[k].image

(***************************************************************************)
(* Properties of extract_period and write_period, checked under SpecPeriod.*)
(***************************************************************************)
\* the decimal digits of n, without padding
RECURSIVE Decimal(_)
Decimal(n) == IF n < 10 THEN <<Digit(n)>> ELSE Append(Decimal(n \div 10), Digit(n % 10))

\* the period string of the dates a and b with the year of b
PeriodOf(a, b) ==
    IF a.m = b.m
    THEN <<"Tu", " ", "ngay", " ">> \o Decimal(a.d) \o <<" ", "-", " ">> \o Decimal(b.d)
             \o <<" ", "thang", " ">> \o Decimal(a.m)
             \o <<" ", "nam", " ">> \o Decimal(b.y)
    ELSE <<"Tu", " ", "ngay", " ">> \o Decimal(a.d) \o <<"/">> \o Decimal(a.m)
             \o <<" ", "-", " ">> \o Decimal(b.d) \o <<"/">> \o Decimal(b.m)
             \o <<" ", "nam", " ">> \o Decimal(b.y)

\* C7: extract_period returns the same-month form when the dates of row 0
\* and row 9 share a month and the cross-month form otherwise, days and
\* months without leading zeros, with the year of the end date (row 9).
C7_PeriodOfEndYear ==
    pc \in {"write", "written"} => period = PeriodOf(first_date, end_date)

(***************************************************************************)
(* Order of the locations, checked under Spec.                             *)
(***************************************************************************)
\* C8: the pivot preserves the first-seen order of the sheet: the locations
\* of the normalized table, the decks generated and the paths returned are
\* in the order in which the locations first appear in the sheet.
C8_FirstSeenOrder ==
    pc # "start" =>
        /\ districts = Unique(sheet)
        /\ \A i \in 1..Len(saved) : saved[i].district = Unique(sheet)[i]

\* C9: the strip removes every picture of the slide and leaves every other
\* shape in place, so the slide handed to the icon step is the template's
\* slide without its pictures; in a finalized deck the pictures are the
\* inserted icons: one per row whose column-0 text resolves to an icon, none
\* for another row, none of the template.
C9_PicturesAreIcons ==
    /\ pc = "icons" => slide = NonPictures(Templates[template].shapes)
    /\ pc = "save" =>
           /\ \A k \in 1..Len(slide) :
                  IsPicture(slide[k]) =>
                      slide[k].src # "template" /\ slide[k].row \in 1..NumRows
           /\ \A r \in 1..NumRows :
                  \E icon \in { select_image(CellText(cells[r].c0), phrases,
                                             image_mappings) } :
                  \E at \in { { k \in 1..Len(slide) :
                                    IsPicture(slide[k]) /\ slide[k].row = r } } :
                      /\ Cardinality(at) = IF icon = None THEN 0 ELSE 1
                      /\ \A k \in at : slide[k] = IconPicture(icon, r)

\* a finalized deck of a template with stale pictures: icons in some rows,
\* none in others
C9_Witness ==
    /\ pc = "save"
    /\ Pictures(Templates[template].shapes) # <<>>
    /\ Pictures(slide) # <<>>
    /\ Len(Pictures(slide)) < NumRows

(***************************************************************************)
(* The period write, checked under SpecPeriod.                             *)
(***************************************************************************)
\* C10: the period write follows the rule of the table cells: with n >= 1
\* runs in the first paragraph of the shape at index 2, the words of the
\* period string become the runs and word i has the style of run i mod n;
\* with no run, the string is written as plain text and the write succeeds.
C10_PeriodStyleRule ==
    pc \in {"written", "failed"} =>
        LET old   == PeriodTemplates[template][3].paragraphs[1]
            n     == Len(old)
            words == Split(period)
            new   == slide[3].paragraphs[1]
        IN  /\ pc = "written"
            /\ n >= 1 =>
                   /\ Len(new) = Len(words)
                   /\ \A i \in 1..Len(words) :
                          /\ new[i].style = old[((i - 1) % n) + 1].style
                          /\ new[i].text = IF i = Len(words) THEN words[i]
                                           ELSE words[i] \o <<" ">>
            /\ n = 0 => new = PlainText(period)


(***************************************************************************)
(* Selectable entries, checked under SpecSweep.                            *)
(***************************************************************************)
\* C11: with the built-in vocabulary and mapping every mapping entry is
\* selectable: once select_image has been applied to every text, the icon
\* of each of the seven entries is among the values it returned.
C11_EveryEntrySelectable ==
    pc = "swept" =>
        \A k \in 1..Len(image_mappings) : image_mappings[k].image \in seen

\* with the built-in vocabulary select_image returns none or the icon of
\* one of the first two entries (SpecIcon, SpecSweep)
SelectedIsOfFirstTwo ==
    (pc \in {"selected", "sweep", "swept"} /\ vocab = 1) =>
        img \in {None, image_mappings[1].image, image_mappings[2].image}

=============================================================================
